---- MODULE Spec2Model ----
(***************************************************************************)
(* A model of the byte cursor / byte buffer primitives of aws-c-common     *)
(* (source/byte_buf.c) and of the two array-list proof harnesses           *)
(* (the jobs under .cbmc-batch/jobs).                                      *)
(*                                                                         *)
(* Three specifications share the module's variables:                      *)
(*   SplitSpec  aws_byte_cursor_next_split / aws_byte_cursor_split_on_char *)
(*   Spec       the aws_byte_buf_* operations over a small heap            *)
(*   ListSpec   the array-list harnesses                                   *)
(* Each specification leaves the variables of the other two untouched.     *)
(*                                                                         *)
(* A function's assert()s are its preconditions: the actions make only the *)
(* calls that satisfy them.                                                *)
(***************************************************************************)
EXTENDS Integers, Sequences, FiniteSets, TLC

VARIABLES
    \* ---- build ----
    char_signed,   \* whether plain char is a signed type in this build
    \* ---- split ----
    input_str,     \* the input cursor [ptr, len]
    mem,           \* the bytes readable at input_str.ptr (mem[i] at ptr + i - 1)
    split_on,      \* the delimiter as the char value the callee receives
    substr,        \* the caller-owned iteration state of next_split
    ret,           \* what the last next_split call returned: "none", "true", "false"
    ncalls,        \* how many next_split calls the caller has made
    output,        \* the items of the output array list of split_on_char_n
    result,        \* what split_on_char_n returned, "none" before the call
    n_arg,         \* the n the caller passed to split_on_char_n
    out_cap,       \* how many items the output list can take before push_back fails
    \* ---- byte buffer ----
    buf,           \* the struct aws_byte_buf: [buffer, len, capacity, allocator]
    heap,          \* the allocator's blocks: block id -> [state, bytes, releases, zeroed]
    last_error,    \* the process-wide last error slot
    call,          \* the call being made, with its source arguments, or NoCall
    last_op,       \* the last call that ended: [op, ret, released, grew (the change in len)]
    init_ok,       \* the buffer's last init or init_copy_from_cursor succeeded
    \* ---- array list ----
    list,          \* the struct aws_array_list: [alloc, current_size, length, item_size, data]
    items,         \* the elements the list holds, front first
    list_blocks,   \* the allocator's blocks for the list: block id -> state
    list_pc,       \* where the harness is: "assumed", "popped", "shrunk", "cleaned"
    list_ret,      \* what shrink_to_fit returned, "none" before the call
    \* ---- equality ----
    eq_mem,        \* the bytes at each address operands can point to
    eq_a,          \* the first operand: [addr, ptr, len], addr the address of the struct
    eq_b,          \* the second operand
    eq_res         \* what the comparisons returned: [op, ab, ba, aa, bb]

split_vars == <<input_str, mem, split_on, substr, ret, ncalls, output, result, n_arg, out_cap>>
build_vars == <<char_signed>>
buf_vars == <<buf, heap, last_error, call, last_op, init_ok>>
list_vars == <<list, items, list_blocks, list_pc, list_ret>>
eq_vars == <<eq_mem, eq_a, eq_b, eq_res>>
vars == <<build_vars, split_vars, buf_vars, list_vars, eq_vars>>

(***************************************************************************)
(* Values                                                                  *)
(***************************************************************************)
NULL == 0
AWS_OP_SUCCESS == "AWS_OP_SUCCESS"
AWS_OP_ERR == "AWS_OP_ERR"
\* SIZE_MAX, as the largest integer TLC represents: split_count
\* never reaches it, which is all the code uses it for.
SIZE_MAX == 2147483647

\* Bounds of the model.
MaxLen == 3        \* longest input of the split operations
MaxCalls == 6      \* next_split calls a caller makes in one behaviour
MaxN == 2          \* largest max_splits argument
MaxOut == 5        \* largest capacity of the output list
MaxBlocks == 1     \* blocks the allocator can hand out before it is exhausted
MaxCap == 2        \* largest capacity asked of aws_byte_buf_init
MaxSrcLen == 2     \* longest source cursor or source buffer
MaxArgs == 2       \* most sources passed to aws_byte_buf_cat
MaxInitialItemAllocation == 4   \* largest initial_item_allocation of a list
MaxPop == 5        \* largest n passed to pop_front_n
MaxEqLen == 2      \* longest operand of the equality functions

\* The byte values inputs are drawn from: ',' 'a' and one byte above 0x7f.
Bytes == {44, 97, 200}
\* The delimiter bytes callers pass.
Delims == {44, 200}

\* The address of the first byte of a non-null input.
InputBase == NULL + 1

ZeroCursor == [ptr |-> NULL, len |-> 0]

RECURSIVE SeqsUpTo(_, _)
SeqsUpTo(S, n) ==
    IF n = 0 THEN {<<>>}
    ELSE LET shorter == SeqsUpTo(S, n - 1)
         IN shorter \cup {Append(s, b) : s \in {t \in shorter : Len(t) = n - 1}, b \in S}

(***************************************************************************)
(* C conversions                                                           *)
(***************************************************************************)
\* The value a byte pattern has when stored in a plain char.
ToChar(b) == IF char_signed /\ b >= 128 THEN b - 256 ELSE b
\* (unsigned char)c, the conversion memchr applies to its int argument.
ToUChar(c) == c % 256

\* *p for a uint8_t *p into the input's memory.
Deref(in, m, p) == m[p - in.ptr + 1]

\* memchr(p, c, n): the address of the first of the n bytes at p equal to
\* (unsigned char)c, or NULL.  With n = 0 nothing is read and NULL is returned.
memchr(in, m, p, c, n) ==
    LET hits == {i \in 0..(n - 1) : Deref(in, m, p + i) = ToUChar(c)}
    IN IF hits = {} THEN NULL
       ELSE p + (CHOOSE i \in hits : \A j \in hits : i <= j)

(***************************************************************************)
(* aws_byte_cursor_next_split                                              *)
(***************************************************************************)
aws_byte_cursor_next_split(in, m, c, sub0) ==
    LET first_run == (sub0.ptr = NULL)
        s1 == IF first_run THEN [ptr |-> in.ptr, len |-> 0] ELSE sub0
    IN IF s1.ptr > in.ptr + in.len
       THEN [ret |-> FALSE, substr |-> ZeroCursor]
       ELSE LET p2 == s1.ptr + s1.len
                l2 == in.len - (p2 - in.ptr)
            IN IF ~first_run /\ l2 = 0
               THEN [ret |-> FALSE, substr |-> ZeroCursor]
               ELSE LET skip == ~first_run /\ Deref(in, m, p2) = c
                        p3 == IF skip THEN p2 + 1 ELSE p2
                        l3 == IF skip THEN l2 - 1 ELSE l2
                    IN IF skip /\ l3 = 0
                       THEN [ret |-> TRUE, substr |-> [ptr |-> p3, len |-> 0]]
                       ELSE LET new_location == memchr(in, m, p3, c, l3)
                            IN [ret |-> TRUE,
                                substr |-> [ptr |-> p3,
                                            len |-> IF new_location # NULL
                                                    THEN new_location - p3
                                                    ELSE l3]]

(***************************************************************************)
(* aws_array_list_push_back on the output list: it fails, leaving the      *)
(* list as it was, when the list cannot take another item.                 *)
(***************************************************************************)
aws_array_list_push_back(l, cap, item) ==
    IF Len(l) >= cap
    THEN [err |-> TRUE, list |-> l]
    ELSE [err |-> FALSE, list |-> Append(l, item)]

(***************************************************************************)
(* aws_byte_cursor_split_on_char_n: the while loop, from one evaluation of *)
(* its condition to the function's return.                                 *)
(***************************************************************************)
RECURSIVE SplitLoop(_, _, _, _, _, _, _, _)
SplitLoop(in, m, c, max_splits, split_count, sub, out, cap) ==
    IF ~(split_count <= max_splits)
    THEN [result |-> AWS_OP_SUCCESS, output |-> out]
    ELSE LET r == aws_byte_cursor_next_split(in, m, c, sub)
         IN IF ~r.ret
            THEN [result |-> AWS_OP_SUCCESS, output |-> out]
            ELSE LET s == IF split_count = max_splits
                          THEN [r.substr EXCEPT !.len = in.len - (r.substr.ptr - in.ptr)]
                          ELSE r.substr
                     pushed == aws_array_list_push_back(out, cap, s)
                 IN IF pushed.err
                    THEN [result |-> AWS_OP_ERR, output |-> pushed.list]
                    ELSE SplitLoop(in, m, c, max_splits, split_count + 1, s, pushed.list, cap)

aws_byte_cursor_split_on_char_n(in, m, c, n, out, cap) ==
    LET max_splits == IF n > 0 THEN n ELSE SIZE_MAX
    IN SplitLoop(in, m, c, max_splits, 0, ZeroCursor, out, cap)

aws_byte_cursor_split_on_char(in, m, c, out, cap) ==
    aws_byte_cursor_split_on_char_n(in, m, c, 0, out, cap)

(***************************************************************************)
(* The byte buffer over the allocator's heap.                              *)
(*                                                                         *)
(* A pointer into the heap is the id of the block it points to (the buffer *)
(* only ever holds a block's first address).  Block ids are never handed   *)
(* out twice, so a block id names one acquisition.                         *)
(***************************************************************************)
\* The bytes buffers and sources hold: zero and one non-zero value.
BufBytes == {0, 1}

\* The one allocator handle callers pass, and the address of memory that
\* belongs to callers (the bytes a source cursor views).
ALLOCATOR == NULL + 1
ExtPtr == MaxBlocks + 1

ZeroBuf == [buffer |-> NULL, len |-> 0, capacity |-> 0, allocator |-> NULL]
UnusedBlock == [state |-> "unused", bytes |-> <<>>, releases |-> 0,
                zeroed |-> FALSE]

\* Source cursors: the null cursor, or a caller-owned run of bytes.
NullSrc == [ptr |-> NULL, len |-> 0, bytes |-> <<>>]
Srcs == {NullSrc} \cup
        {[ptr |-> ExtPtr, len |-> Len(q), bytes |-> q] : q \in SeqsUpTo(BufBytes, MaxSrcLen)}

\* What the allocator may answer to a request of `size` bytes: no memory, or
\* a block whose bytes are whatever the memory held (uninitialized).
Grants(size) ==
    {[ok |-> FALSE, bytes |-> <<>>]} \cup
    {[ok |-> TRUE, bytes |-> q] : q \in [1..size -> BufBytes]}

\* aws_mem_acquire(allocator, size) when the allocator answers `grant`.
aws_mem_acquire(h, size, grant) ==
    LET unused == {b \in DOMAIN h : h[b].state = "unused"}
    IN IF ~grant.ok \/ unused = {}
       THEN [ptr |-> NULL, heap |-> h]
       ELSE LET b == CHOOSE x \in unused : \A y \in unused : x <= y
            IN [ptr |-> b,
                heap |-> [h EXCEPT ![b] = [state |-> "live",
                                           bytes |-> grant.bytes,
                                           releases |-> 0, zeroed |-> FALSE]]]

\* aws_mem_release(allocator, ptr): the allocator takes the storage back.
\* Nothing reads it again; the block keeps whether every byte of it was zero
\* when it was given back.
aws_mem_release(h, p) ==
    [h EXCEPT ![p] = [state |-> "released", bytes |-> <<>>,
                      releases |-> @.releases + 1,
                      zeroed |-> \A i \in 1..Len(@.bytes) : @.bytes[i] = 0]]

\* memcpy / aws_secure_zero into block p at offset off: the block's bytes
\* with data written over positions off+1 .. off+Len(data).
Store(h, p, off, data) ==
    [h EXCEPT ![p].bytes =
        [i \in 1..Len(@) |-> IF i > off /\ i <= off + Len(data) THEN data[i - off] ELSE @[i]]]

Zeros(n) == [i \in 1..n |-> 0]

\* A call's outcome: the buffer and heap it leaves, what it returned, the
\* error it raised and the blocks it released.
Outcome(b, h, r, e, rel) ==
    [buf |-> b, heap |-> h, ret |-> r, err |-> e, released |-> rel]

aws_byte_buf_init(b, h, capacity, grant) ==
    LET a == aws_mem_acquire(h, capacity, grant)
    IN IF a.ptr = NULL
       THEN Outcome([b EXCEPT !.buffer = NULL], a.heap, AWS_OP_ERR, "AWS_ERROR_OOM", {})
       ELSE Outcome([buffer |-> a.ptr, len |-> 0, capacity |-> capacity,
                     allocator |-> ALLOCATOR],
                    a.heap, AWS_OP_SUCCESS, "none", {})

\* aws_byte_buf_clean_up without the four assignments that zero the struct.
aws_byte_buf_clean_up_keeps_fields(b, h) ==
    LET release == b.allocator # NULL /\ b.buffer # NULL
    IN Outcome(b,
               IF release THEN aws_mem_release(h, b.buffer) ELSE h,
               "void", "none",
               IF release THEN {b.buffer} ELSE {})

aws_byte_buf_clean_up(b, h) ==
    LET release == b.allocator # NULL /\ b.buffer # NULL
    IN Outcome(ZeroBuf,
               IF release THEN aws_mem_release(h, b.buffer) ELSE h,
               "void", "none",
               IF release THEN {b.buffer} ELSE {})

\* aws_byte_buf_secure_zero wiping buf->len bytes instead of buf->capacity.
aws_byte_buf_secure_zero_used_only(b, h) ==
    Outcome([b EXCEPT !.len = 0],
            IF b.buffer # NULL THEN Store(h, b.buffer, 0, Zeros(b.len)) ELSE h,
            "void", "none", {})

aws_byte_buf_secure_zero(b, h) ==
    Outcome([b EXCEPT !.len = 0],
            IF b.buffer # NULL THEN Store(h, b.buffer, 0, Zeros(b.capacity)) ELSE h,
            "void", "none", {})

aws_byte_buf_clean_up_secure(b, h) ==
    LET z == aws_byte_buf_secure_zero(b, h)
    IN aws_byte_buf_clean_up(z.buf, z.heap)

\* aws_byte_buf_init_copy_from_cursor without the memcpy of line 99.
aws_byte_buf_init_copy_from_cursor_no_copy(b, h, src, grant) ==
    LET d0 == [b EXCEPT !.len = 0, !.capacity = 0, !.allocator = NULL]
    IN IF src.ptr = NULL
       THEN Outcome([d0 EXCEPT !.buffer = NULL], h, AWS_OP_SUCCESS, "none", {})
       ELSE LET a == aws_mem_acquire(h, src.len, grant)
            IN IF a.ptr = NULL
               THEN Outcome([d0 EXCEPT !.buffer = NULL], a.heap, AWS_OP_ERR,
                            "AWS_ERROR_OOM", {})
               ELSE Outcome([buffer |-> a.ptr, len |-> src.len, capacity |-> src.len,
                             allocator |-> ALLOCATOR],
                            a.heap, AWS_OP_SUCCESS, "none", {})

aws_byte_buf_init_copy_from_cursor(b, h, src, grant) ==
    LET d0 == [b EXCEPT !.len = 0, !.capacity = 0, !.allocator = NULL]
    IN IF src.ptr = NULL
       THEN Outcome([d0 EXCEPT !.buffer = NULL], h, AWS_OP_SUCCESS, "none", {})
       ELSE LET a == aws_mem_acquire(h, src.len, grant)
            IN IF a.ptr = NULL
               THEN Outcome([d0 EXCEPT !.buffer = NULL], a.heap, AWS_OP_ERR,
                            "AWS_ERROR_OOM", {})
               ELSE Outcome([buffer |-> a.ptr, len |-> src.len, capacity |-> src.len,
                             allocator |-> ALLOCATOR],
                            Store(a.heap, a.ptr, 0, src.bytes),
                            AWS_OP_SUCCESS, "none", {})

\* aws_byte_buf_append with the capacity check off by one: a source that
\* fits exactly is refused.
aws_byte_buf_append_off_by_one(to, h, from) ==
    IF to.capacity - to.len <= from.len
    THEN Outcome(to, h, AWS_OP_ERR, "AWS_ERROR_DEST_COPY_TOO_SMALL", {})
    ELSE Outcome([to EXCEPT !.len = @ + from.len],
                 Store(h, to.buffer, to.len, from.bytes),
                 AWS_OP_SUCCESS, "none", {})

\* assert(from->ptr); assert(to->buffer);
AppendPre(to, from) == from.ptr # NULL /\ to.buffer # NULL

aws_byte_buf_append(to, h, from) ==
    IF to.capacity - to.len < from.len
    THEN Outcome(to, h, AWS_OP_ERR, "AWS_ERROR_DEST_COPY_TOO_SMALL", {})
    ELSE Outcome([to EXCEPT !.len = @ + from.len],
                 Store(h, to.buffer, to.len, from.bytes),
                 AWS_OP_SUCCESS, "none", {})

\* The source buffers passed to cat as argument i: other buffers whose used
\* region is a run of one byte value, the value alternating from one
\* argument to the next so that the order of the copies shows in the result.
SrcBuf(i, n) == [buffer |-> ExtPtr, len |-> n, bytes |-> [j \in 1..n |-> i % 2]]

\* The argument lists of k source buffers, each of 0..MaxSrcLen bytes.
CatArgs(k) == {[i \in 1..k |-> SrcBuf(i, lens[i])] : lens \in [1..k -> 0..MaxSrcLen]}

\* aws_byte_cursor_from_buf: the view of a buffer's used region.
aws_byte_cursor_from_buf(buffer) ==
    [ptr |-> buffer.buffer, len |-> buffer.len, bytes |-> buffer.bytes]

\* aws_byte_buf_cat: the for loop from argument i to the return.
RECURSIVE CatLoop(_, _, _, _)
CatLoop(dest, h, args, i) ==
    IF ~(i < Len(args))
    THEN Outcome(dest, h, AWS_OP_SUCCESS, "none", {})
    ELSE LET cursor == aws_byte_cursor_from_buf(args[i + 1])
             a == aws_byte_buf_append(dest, h, cursor)
         IN IF a.ret # AWS_OP_SUCCESS
            THEN Outcome(a.buf, a.heap, AWS_OP_ERR, a.err, {})
            ELSE CatLoop(a.buf, a.heap, args, i + 1)

\* aws_byte_buf_cat that does not return at a failed append: it goes on
\* to the next argument and reports the error at the end.
RECURSIVE CatLoopKeepsGoing(_, _, _, _, _)
CatLoopKeepsGoing(dest, h, args, i, failed) ==
    IF ~(i < Len(args))
    THEN IF failed
         THEN Outcome(dest, h, AWS_OP_ERR, "AWS_ERROR_DEST_COPY_TOO_SMALL", {})
         ELSE Outcome(dest, h, AWS_OP_SUCCESS, "none", {})
    ELSE LET a == aws_byte_buf_append(dest, h, aws_byte_cursor_from_buf(args[i + 1]))
         IN CatLoopKeepsGoing(a.buf, a.heap, args, i + 1,
                              failed \/ a.ret # AWS_OP_SUCCESS)

aws_byte_buf_cat_keeps_going(dest, h, args) == CatLoopKeepsGoing(dest, h, args, 0, FALSE)

aws_byte_buf_cat(dest, h, args) == CatLoop(dest, h, args, 0)

\* cat's own assert(dest) holds of every call; each append it makes asserts
\* a non-null destination pointer and a non-null source pointer.
CatPre(dest, args) ==
    \A i \in 1..Len(args) : AppendPre(dest, aws_byte_cursor_from_buf(args[i]))

(***************************************************************************)
(* Equality.  An operand is handed over by the address of its struct       *)
(* (addr, NULL for a null handle); the struct holds a pointer and a        *)
(* length, and bytes are the len bytes the pointer points to.              *)
(***************************************************************************)
\* memcmp(x, y, n): 0 when the first n bytes agree, else the sign of the
\* first difference, the bytes compared as unsigned char.
memcmp(x, y, n) ==
    LET diff == {i \in 1..n : x[i] # y[i]}
    IN IF diff = {} THEN 0
       ELSE LET i == CHOOSE k \in diff : \A j \in diff : k <= j
            IN IF x[i] < y[i] THEN 0 - 1 ELSE 1

aws_byte_buf_eq(a, b) ==
    IF a.addr = NULL \/ b.addr = NULL THEN a.addr = b.addr
    ELSE IF a.len # b.len THEN FALSE
    ELSE IF a.buffer = NULL \/ b.buffer = NULL THEN a.buffer = b.buffer
    ELSE memcmp(a.bytes, b.bytes, a.len) = 0

aws_byte_cursor_eq(a, b) ==
    IF a.addr = NULL \/ b.addr = NULL THEN a.addr = b.addr
    ELSE IF a.len # b.len THEN FALSE
    ELSE IF a.ptr = NULL \/ b.ptr = NULL THEN a.ptr = b.ptr
    ELSE memcmp(a.bytes, b.bytes, a.len) = 0

aws_byte_cursor_eq_byte_buf(a, b) ==
    IF a.addr = NULL \/ b.addr = NULL THEN a.addr = b.addr
    ELSE IF a.len # b.len THEN FALSE
    ELSE IF a.ptr = NULL \/ b.buffer = NULL THEN a.ptr = b.buffer
    ELSE memcmp(a.bytes, b.bytes, a.len) = 0

\* The places an operand's pointer can point to: two operands point to at
\* most two.
EqPtrs == {NULL + 1, NULL + 2}

\* The null handle.
NullOperand == [addr |-> NULL, ptr |-> NULL, len |-> 0]

\* The well-formed operands whose struct is at address ad: a null pointer
\* with length 0, or a pointer to len readable bytes (len may be 0).
Operands(ad) ==
    {[addr |-> ad, ptr |-> NULL, len |-> 0]} \cup
    {[addr |-> ad, ptr |-> p, len |-> n] : p \in EqPtrs, n \in 0..MaxEqLen}

\* The operand as a struct aws_byte_cursor * and as a struct aws_byte_buf *.
AsCursor(m, x) ==
    [addr |-> x.addr, ptr |-> x.ptr, len |-> x.len,
     bytes |-> IF x.ptr = NULL THEN <<>> ELSE SubSeq(m[x.ptr], 1, x.len)]
AsBuf(m, x) ==
    [addr |-> x.addr, buffer |-> x.ptr, len |-> x.len,
     bytes |-> IF x.ptr = NULL THEN <<>> ELSE SubSeq(m[x.ptr], 1, x.len)]

(***************************************************************************)
(* The dynamic array of the two proof harnesses.  The array list's own     *)
(* code is not among the sources: clean_up, pop_front_n and shrink_to_fit  *)
(* are modelled from the specification's description of them.              *)
(***************************************************************************)
MAX_ITEM_SIZE == 2

ZeroList == [alloc |-> NULL, current_size |-> 0, length |-> 0, item_size |-> 0,
             data |-> NULL]

\* ASSUME_BOUNDED_ARRAY_LIST: a well-formed list with item_size <=
\* MAX_ITEM_SIZE and length <= initial_item_allocation; its storage, when it
\* has any, is block 1.
BoundedArrayLists ==
    UNION {
        {[alloc |-> ALLOCATOR, current_size |-> initial_item_allocation * item_size,
          length |-> length, item_size |-> item_size,
          data |-> IF initial_item_allocation * item_size = 0 THEN NULL ELSE 1] :
            item_size \in 0..MAX_ITEM_SIZE, length \in 0..initial_item_allocation} :
        initial_item_allocation \in 0..MaxInitialItemAllocation}

WellFormedList(l) ==
    /\ l.length * l.item_size <= l.current_size
    /\ (l.data = NULL) = (l.current_size = 0)

\* aws_array_list_clean_up that leaves item_size as it was.
aws_array_list_clean_up_keeps_item_size(l, it, blocks) ==
    [list |-> [ZeroList EXCEPT !.item_size = l.item_size],
     items |-> <<>>,
     blocks |-> IF l.alloc # NULL /\ l.data # NULL
                THEN [blocks EXCEPT ![l.data] = "released"]
                ELSE blocks]

\* aws_array_list_clean_up: release the storage if allocated, then zero
\* every field.
aws_array_list_clean_up(l, it, blocks) ==
    [list |-> ZeroList,
     items |-> <<>>,
     blocks |-> IF l.alloc # NULL /\ l.data # NULL
                THEN [blocks EXCEPT ![l.data] = "released"]
                ELSE blocks]

\* aws_array_list_pop_front_n: remove up to n elements from the front;
\* n >= length empties the list.
aws_array_list_pop_front_n(l, it, n) ==
    IF n >= l.length
    THEN [list |-> [l EXCEPT !.length = 0], items |-> <<>>]
    ELSE [list |-> [l EXCEPT !.length = l.length - n],
          items |-> SubSeq(it, n + 1, Len(it))]

\* aws_array_list_shrink_to_fit that keeps the storage of a list that still
\* holds elements.
aws_array_list_shrink_to_fit_keeps_storage(l, blocks, grant) ==
    IF l.length = 0
    THEN [ret |-> AWS_OP_SUCCESS,
          list |-> [l EXCEPT !.data = NULL, !.current_size = 0],
          blocks |-> IF l.data # NULL THEN [blocks EXCEPT ![l.data] = "released"]
                     ELSE blocks]
    ELSE [ret |-> AWS_OP_SUCCESS, list |-> l, blocks |-> blocks]

\* aws_array_list_shrink_to_fit when the allocator answers `grant` (TRUE:
\* it hands out block 2).  An empty list releases its storage; otherwise
\* exactly length * item_size bytes are acquired, the elements copied and
\* the old storage released; when the allocator refuses, the list is left
\* as it was and the call reports the failure.
aws_array_list_shrink_to_fit(l, blocks, grant) ==
    IF l.length = 0
    THEN [ret |-> AWS_OP_SUCCESS,
          list |-> [l EXCEPT !.data = NULL, !.current_size = 0],
          blocks |-> IF l.data # NULL THEN [blocks EXCEPT ![l.data] = "released"]
                     ELSE blocks]
    ELSE IF ~grant
    THEN [ret |-> AWS_OP_ERR, list |-> l, blocks |-> blocks]
    ELSE [ret |-> AWS_OP_SUCCESS,
          list |-> [l EXCEPT !.data = 2, !.current_size = l.length * l.item_size],
          blocks |-> [p \in DOMAIN blocks |->
                         IF p = 2 THEN "live"
                         ELSE IF p = l.data THEN "released"
                         ELSE blocks[p]]]

SplitIdle ==
    /\ input_str = ZeroCursor
    /\ mem = <<>>
    /\ split_on = 0
    /\ substr = ZeroCursor
    /\ ret = "none"
    /\ ncalls = 0
    /\ output = <<>>
    /\ result = "none"
    /\ n_arg = 0
    /\ out_cap = 0

NoEq == [op |-> "none", ab |-> FALSE, ba |-> FALSE, aa |-> FALSE, bb |-> FALSE]

EqIdle ==
    /\ eq_mem = <<>>
    /\ eq_a = NullOperand
    /\ eq_b = NullOperand
    /\ eq_res = NoEq

ListIdle ==
    /\ list = ZeroList
    /\ items = <<>>
    /\ list_blocks = [p \in 1..2 |-> "unused"]
    /\ list_pc = "idle"
    /\ list_ret = "none"

(***************************************************************************)
(* Spec: one byte buffer, the calls a program makes on it.                 *)
(***************************************************************************)
NoOp == [op |-> "none", ret |-> "none", released |-> {}, grew |-> 0]
NoCall == [op |-> "none", srcs |-> <<>>]

BufIdle ==
    /\ buf = ZeroBuf
    /\ heap = [b \in 1..MaxBlocks |-> UnusedBlock]
    /\ last_error = "none"
    /\ call = NoCall
    /\ last_op = NoOp
    /\ init_ok = FALSE

\* The buffer starts as a zeroed struct.
Init ==
    /\ char_signed = FALSE
    /\ SplitIdle
    /\ ListIdle
    /\ BufIdle
    /\ EqIdle

\* The bytes of a live block that no pointer reaches any more (the buffer
\* was initialized again while it owned the block) are not observable: the
\* heap keeps the block and drops its bytes.
Reachable(h, b) ==
    [p \in DOMAIN h |->
        IF h[p].state = "live" /\ p # b.buffer THEN [h[p] EXCEPT !.bytes = <<>>] ELSE h[p]]

\* The state a call leaves, given its outcome.
Return(op, o) ==
    /\ buf' = o.buf
    /\ heap' = Reachable(o.heap, o.buf)
    /\ last_error' = IF o.err = "none" THEN last_error ELSE o.err
    /\ call' = NoCall
    /\ last_op' = [op |-> op, ret |-> o.ret, released |-> o.released,
                    grew |-> IF op \in {"append", "cat", "clean_up_secure"}
                             THEN o.buf.len - buf.len ELSE 0]
    /\ init_ok' = IF op \in {"init", "init_copy_from_cursor"}
                  THEN o.ret = AWS_OP_SUCCESS
                  ELSE init_ok

Idle == call = NoCall

\* The caller builds the source arguments of a call and makes the call.
CallInitCopyFromCursor ==
    /\ Idle
    /\ \E src \in Srcs : call' = [op |-> "init_copy_from_cursor", srcs |-> <<src>>]
    /\ UNCHANGED <<buf, heap, last_error, last_op, init_ok>>

CallAppend ==
    /\ Idle
    /\ \E src \in Srcs :
          /\ AppendPre(buf, src)
          /\ call' = [op |-> "append", srcs |-> <<src>>]
    /\ UNCHANGED <<buf, heap, last_error, last_op, init_ok>>

CallCat ==
    /\ Idle
    /\ \E k \in 0..MaxArgs : \E args \in CatArgs(k) :
          /\ CatPre(buf, args)
          /\ call' = [op |-> "cat", srcs |-> args]
    /\ UNCHANGED <<buf, heap, last_error, last_op, init_ok>>

\* The called function runs from entry to return.
BufInit ==
    /\ Idle
    /\ \E capacity \in 0..MaxCap : \E grant \in Grants(capacity) :
          Return("init", aws_byte_buf_init(buf, heap, capacity, grant))

BufInitCopyFromCursor ==
    /\ call.op = "init_copy_from_cursor"
    /\ \E grant \in Grants(call.srcs[1].len) :
          Return("init_copy_from_cursor",
                 aws_byte_buf_init_copy_from_cursor(buf, heap, call.srcs[1], grant))

BufAppend ==
    /\ call.op = "append"
    /\ Return("append", aws_byte_buf_append(buf, heap, call.srcs[1]))

BufCat ==
    /\ call.op = "cat"
    /\ Return("cat", aws_byte_buf_cat(buf, heap, call.srcs))

BufSecureZero ==
    /\ Idle
    /\ Return("secure_zero", aws_byte_buf_secure_zero(buf, heap))

BufCleanUp ==
    /\ Idle
    /\ Return("clean_up", aws_byte_buf_clean_up(buf, heap))

BufCleanUpSecure ==
    /\ Idle
    /\ Return("clean_up_secure", aws_byte_buf_clean_up_secure(buf, heap))

Next ==
    \/ CallInitCopyFromCursor /\ UNCHANGED <<build_vars, split_vars, list_vars, eq_vars>>
    \/ CallAppend /\ UNCHANGED <<build_vars, split_vars, list_vars, eq_vars>>
    \/ CallCat /\ UNCHANGED <<build_vars, split_vars, list_vars, eq_vars>>
    \/ BufInit /\ UNCHANGED <<build_vars, split_vars, list_vars, eq_vars>>
    \/ BufInitCopyFromCursor /\ UNCHANGED <<build_vars, split_vars, list_vars, eq_vars>>
    \/ BufAppend /\ UNCHANGED <<build_vars, split_vars, list_vars, eq_vars>>
    \/ BufCat /\ UNCHANGED <<build_vars, split_vars, list_vars, eq_vars>>
    \/ BufSecureZero /\ UNCHANGED <<build_vars, split_vars, list_vars, eq_vars>>
    \/ BufCleanUp /\ UNCHANGED <<build_vars, split_vars, list_vars, eq_vars>>
    \/ BufCleanUpSecure /\ UNCHANGED <<build_vars, split_vars, list_vars, eq_vars>>

Spec == Init /\ [][Next]_vars


(***************************************************************************)
(* SplitSpec                                                               *)
(***************************************************************************)
BuildInit ==
    /\ char_signed \in BOOLEAN

\* A well-formed input cursor: a null pointer with length 0, or a non-null
\* pointer to len readable bytes (len may be 0).
SplitInit ==
    /\ BuildInit
    /\ BufIdle
    /\ ListIdle
    /\ EqIdle
    /\ \/ /\ input_str = ZeroCursor
          /\ mem = <<>>
       \/ /\ mem \in SeqsUpTo(Bytes, MaxLen)
          /\ input_str = [ptr |-> InputBase, len |-> Len(mem)]
    /\ \E d \in Delims : split_on = ToChar(d)
    /\ substr = ZeroCursor
    /\ ret = "none"
    /\ ncalls = 0
    /\ output = <<>>
    /\ result = "none"
    /\ n_arg = 0
    /\ out_cap = 0

\* The caller calls next_split once more on its iteration state.
NextSplitCall ==
    /\ ncalls < MaxCalls
    /\ ret # "false"
    /\ LET r == aws_byte_cursor_next_split(input_str, mem, split_on, substr)
       IN /\ substr' = r.substr
          /\ ret' = IF r.ret THEN "true" ELSE "false"
    /\ ncalls' = ncalls + 1
    /\ UNCHANGED <<input_str, mem, split_on, output, result, n_arg, out_cap>>

\* The caller calls split_on_char_n with n > 0 on an empty output list.
\* assert(input_str && input_str->ptr).
SplitOnCharN ==
    /\ result = "none"
    /\ input_str.ptr # NULL
    /\ \E n \in 1..MaxN, cap \in 0..MaxOut :
          LET r == aws_byte_cursor_split_on_char_n(input_str, mem, split_on, n, <<>>, cap)
          IN /\ output' = r.output
             /\ result' = r.result
             /\ n_arg' = n
             /\ out_cap' = cap
    /\ UNCHANGED <<input_str, mem, split_on, substr, ret, ncalls>>

\* The caller calls split_on_char on an empty output list.
SplitOnChar ==
    /\ result = "none"
    /\ input_str.ptr # NULL
    /\ \E cap \in 0..MaxOut :
          LET r == aws_byte_cursor_split_on_char(input_str, mem, split_on, <<>>, cap)
          IN /\ output' = r.output
             /\ result' = r.result
             /\ n_arg' = 0
             /\ out_cap' = cap
    /\ UNCHANGED <<input_str, mem, split_on, substr, ret, ncalls>>


SplitNext ==
    \/ NextSplitCall /\ UNCHANGED <<build_vars, buf_vars, list_vars, eq_vars>>
    \/ SplitOnCharN /\ UNCHANGED <<build_vars, buf_vars, list_vars, eq_vars>>
    \/ SplitOnChar /\ UNCHANGED <<build_vars, buf_vars, list_vars, eq_vars>>

SplitSpec == SplitInit /\ [][SplitNext]_vars

(***************************************************************************)
(* ListSpec: the two harnesses.  Both start from an assumed bounded list;  *)
(* one cleans it up, the other pops n elements and shrinks it to fit.      *)
(***************************************************************************)
ListInit ==
    /\ char_signed = FALSE
    /\ SplitIdle
    /\ BufIdle
    /\ EqIdle
    /\ list \in BoundedArrayLists
    /\ items = [i \in 1..list.length |-> i]
    /\ list_blocks = [p \in 1..2 |-> IF p = list.data THEN "live" ELSE "unused"]
    /\ list_pc = "assumed"
    /\ list_ret = "none"

\* aws_array_list_clean_up_harness: clean_up(list) on the assumed list.
ListCleanUp ==
    /\ list_pc = "assumed"
    /\ LET r == aws_array_list_clean_up(list, items, list_blocks)
       IN /\ list' = r.list
          /\ items' = r.items
          /\ list_blocks' = r.blocks
    /\ list_pc' = "cleaned"
    /\ UNCHANGED list_ret

\* aws_array_list_shrink_to_fit_harness: pop_front_n(list, n) ...
ListPopFrontN ==
    /\ list_pc = "assumed"
    /\ \E n \in 0..MaxPop :
          LET r == aws_array_list_pop_front_n(list, items, n)
          IN /\ list' = r.list
             /\ items' = r.items
    /\ list_pc' = "popped"
    /\ UNCHANGED <<list_blocks, list_ret>>

\* ... then shrink_to_fit(list).
ListShrinkToFit ==
    /\ list_pc = "popped"
    /\ \E grant \in BOOLEAN :
          LET r == aws_array_list_shrink_to_fit(list, list_blocks, grant)
          IN /\ list' = r.list
             /\ list_blocks' = r.blocks
             /\ list_ret' = r.ret
    /\ list_pc' = "shrunk"
    /\ UNCHANGED items

ListNext ==
    \/ ListCleanUp /\ UNCHANGED <<build_vars, split_vars, buf_vars, eq_vars>>
    \/ ListPopFrontN /\ UNCHANGED <<build_vars, split_vars, buf_vars, eq_vars>>
    \/ ListShrinkToFit /\ UNCHANGED <<build_vars, split_vars, buf_vars, eq_vars>>

ListSpec == ListInit /\ [][ListNext]_vars

(***************************************************************************)
(* EqSpec: two operands, and one of the three equality functions applied   *)
(* to them in both orders and to each with itself.                         *)
(***************************************************************************)
EqInit ==
    /\ char_signed = FALSE
    /\ SplitIdle
    /\ BufIdle
    /\ ListIdle
    /\ eq_mem \in [EqPtrs -> [1..MaxEqLen -> BufBytes]]
    /\ eq_a \in {NullOperand} \cup Operands(NULL + 1)
    /\ eq_b \in {NullOperand} \cup Operands(NULL + 2)
    /\ eq_res = NoEq

EqBuf ==
    /\ eq_res = NoEq
    /\ LET a == AsBuf(eq_mem, eq_a)
           b == AsBuf(eq_mem, eq_b)
       IN eq_res' = [op |-> "buf_eq",
                     ab |-> aws_byte_buf_eq(a, b), ba |-> aws_byte_buf_eq(b, a),
                     aa |-> aws_byte_buf_eq(a, a), bb |-> aws_byte_buf_eq(b, b)]
    /\ UNCHANGED <<eq_mem, eq_a, eq_b>>

EqCursor ==
    /\ eq_res = NoEq
    /\ LET a == AsCursor(eq_mem, eq_a)
           b == AsCursor(eq_mem, eq_b)
       IN eq_res' = [op |-> "cursor_eq",
                     ab |-> aws_byte_cursor_eq(a, b), ba |-> aws_byte_cursor_eq(b, a),
                     aa |-> aws_byte_cursor_eq(a, a), bb |-> aws_byte_cursor_eq(b, b)]
    /\ UNCHANGED <<eq_mem, eq_a, eq_b>>

\* The cursor is the first argument and the buffer the second: in ba the
\* cursor views b and the buffer is a.
EqCursorByteBuf ==
    /\ eq_res = NoEq
    /\ LET ca == AsCursor(eq_mem, eq_a)
           cb == AsCursor(eq_mem, eq_b)
           ba == AsBuf(eq_mem, eq_a)
           bb == AsBuf(eq_mem, eq_b)
       IN eq_res' = [op |-> "cursor_eq_byte_buf",
                     ab |-> aws_byte_cursor_eq_byte_buf(ca, bb),
                     ba |-> aws_byte_cursor_eq_byte_buf(cb, ba),
                     aa |-> aws_byte_cursor_eq_byte_buf(ca, ba),
                     bb |-> aws_byte_cursor_eq_byte_buf(cb, bb)]
    /\ UNCHANGED <<eq_mem, eq_a, eq_b>>

EqNext ==
    \/ EqBuf /\ UNCHANGED <<build_vars, split_vars, buf_vars, list_vars>>
    \/ EqCursor /\ UNCHANGED <<build_vars, split_vars, buf_vars, list_vars>>
    \/ EqCursorByteBuf /\ UNCHANGED <<build_vars, split_vars, buf_vars, list_vars>>

EqSpec == EqInit /\ [][EqNext]_vars


(***************************************************************************)
(* What splitting on a delimiter means, stated without the code: the       *)
(* maximal delimiter-free substrings of the input, in order.               *)
(***************************************************************************)
\* The delimiter byte the caller asked for.
DelimByte == ToUChar(split_on)
\* The (1-based) positions of the input holding the delimiter.
DelimAt == {i \in 1..Len(mem) : mem[i] = DelimByte}
NumSegments == Cardinality(DelimAt) + 1
\* Boundary(k): the position of the k-th delimiter; 0 before the input and
\* Len(mem) + 1 past its end.
Boundary(k) ==
    IF k = 0 THEN 0
    ELSE IF k = NumSegments THEN Len(mem) + 1
    ELSE CHOOSE p \in DelimAt : Cardinality({q \in DelimAt : q < p}) = k - 1
\* The k-th maximal delimiter-free substring, as a cursor into the input.
Segment(k) ==
    [ptr |-> input_str.ptr + Boundary(k - 1),
     len |-> Boundary(k) - Boundary(k - 1) - 1]
Segments == [k \in 1..NumSegments |-> Segment(k)]
\* The bytes a cursor into the input views.
Content(cur) ==
    SubSeq(mem, cur.ptr - input_str.ptr + 1, cur.ptr - input_str.ptr + cur.len)
\* The cursors' contents joined with the delimiter byte.
RECURSIVE Join(_)
Join(curs) ==
    IF curs = <<>> THEN <<>>
    ELSE IF Len(curs) = 1 THEN Content(curs[1])
    ELSE Content(curs[1]) \o <<DelimByte>> \o Join(Tail(curs))
\* The rest of the input from the start of segment k.
Remainder(k) ==
    [ptr |-> Segment(k).ptr,
     len |-> input_str.len - (Segment(k).ptr - input_str.ptr)]

SplitReturned == result # "none"

\* C1: for every input with a non-null pointer and every delimiter byte,
\* split_on_char (n = 0) into a list with room for the segments succeeds
\* and pushes exactly the maximal delimiter-free substrings, in order: one
\* more than there are delimiters, empty ones kept, and joining them with
\* the delimiter gives back the input.
C1_SplitOnCharExact ==
    (SplitReturned /\ n_arg = 0 /\ input_str.ptr # NULL /\ out_cap >= NumSegments)
        => /\ result = AWS_OP_SUCCESS
           /\ Len(output) = Cardinality(DelimAt) + 1
           /\ output = Segments
           /\ \A k \in 1..Len(output) :
                  \A i \in 1..Len(Content(output[k])) : Content(output[k])[i] # DelimByte
           /\ Join(output) = mem

\* C2: split_on_char_n with n > 0 on an input of k segments: the unlimited
\* split when k <= n; otherwise n + 1 items, the first n segments and then
\* the whole remainder of the input from the start of segment n + 1.
C2_SplitOnCharNCapped ==
    (SplitReturned /\ n_arg > 0 /\ input_str.ptr # NULL /\ out_cap >= n_arg + 1)
        => /\ result = AWS_OP_SUCCESS
           /\ IF NumSegments <= n_arg
              THEN output = Segments
              ELSE /\ Len(output) = n_arg + 1
                   /\ \A k \in 1..n_arg : output[k] = Segment(k)
                   /\ output[n_arg + 1] = Remainder(n_arg + 1)

\* C3: repeated next_split calls from a zeroed state return true only
\* finitely often.  The call is a function of (input, delimiter, state), so a
\* call that returns true and leaves the state as it found it repeats for
\* ever: the claim says no call does that, and that the call returning
\* false leaves the state zeroed.
C3_NextSplitTerminates ==
    [][ncalls' = ncalls + 1 =>
          /\ ~(ret' = "true" /\ substr' = substr)
          /\ (ret' = "false" => substr' = ZeroCursor)]_vars

\* The build and delimiter for which the comparison of line 132 and the
\* search of line 143 agree on what the delimiter is.
DelimAgrees == split_on = DelimByte

\* With a non-null input and an agreeing delimiter the calls return the
\* segments one by one, and then false with the state zeroed.
C3_NextSplitTerminates_Agree ==
    (input_str.ptr # NULL /\ DelimAgrees) =>
        /\ ret = "true" => ncalls <= NumSegments /\ substr = Segment(ncalls)
        /\ ret = "false" => ncalls = NumSegments + 1 /\ substr = ZeroCursor

\* C1, C2 restricted to the inputs where the comparison and the search agree.
C1_SplitOnCharExact_Agree == DelimAgrees => C1_SplitOnCharExact
C2_SplitOnCharNCapped_Agree == DelimAgrees => C2_SplitOnCharNCapped

(***************************************************************************)
(* Claims about the array list (ListSpec).                                 *)
(***************************************************************************)
\* Every assumed list is well formed.
ListAssumedWellFormed == list_pc = "assumed" => WellFormedList(list)

\* C6: after pop_front_n(n), for any n, and a shrink_to_fit that reports
\* success, either the list is empty with a null pointer or its pointer is
\* non-null and current_size is exactly length * item_size.
C6_ShrinkToFitExact ==
    (list_pc = "shrunk" /\ list_ret = AWS_OP_SUCCESS)
        => \/ list.length = 0 /\ list.data = NULL
           \/ list.data # NULL /\ list.current_size = list.length * list.item_size

\* A list that kept elements after elements were popped was shrunk with success.
C6_Witness ==
    /\ list_pc = "shrunk"
    /\ list_ret = AWS_OP_SUCCESS
    /\ list.length > 0
    /\ items[1] > 1
    /\ list.item_size > 0

\* C7: after clean_up all five fields of the list are zeroed, whatever the
\* list held before.
C7_CleanUpZeroes ==
    list_pc = "cleaned"
        => /\ list.alloc = NULL
           /\ list.current_size = 0
           /\ list.length = 0
           /\ list.item_size = 0
           /\ list.data = NULL

\* A list that had storage was cleaned up.
C7_Witness ==
    /\ list_pc = "cleaned"
    /\ \E p \in DOMAIN list_blocks : list_blocks[p] = "released"

(***************************************************************************)
(* Claims about the byte buffer (Spec).                                    *)
(***************************************************************************)
\* The bytes of the buffer's used region.
Used(b, h) == IF b.buffer = NULL THEN <<>> ELSE SubSeq(h[b.buffer].bytes, 1, b.len)

\* The step is the run of a call the caller prepared.
Ran(op) == call.op = op /\ call' = NoCall
\* The step is the run of a call that takes no source.
RanDirect(op) == call = NoCall /\ call' = NoCall /\ last_op'.op = op
\* The blocks the step released.
ReleasedNow == {p \in DOMAIN heap : heap'[p].releases > heap[p].releases}

BufTypeOK ==
    /\ buf.len <= buf.capacity
    /\ buf.buffer # NULL => /\ heap[buf.buffer].state = "live"
                            /\ Len(heap[buf.buffer].bytes) = buf.capacity

\* C4: append with source.length > capacity - length returns an error,
\* sets the last error to destination-too-small and leaves the buffer and
\* its bytes as they were; otherwise it succeeds, writes the source bytes at
\* [length, length + source.length), adds source.length to length and
\* leaves capacity and every other byte as they were.
C4_AppendCapacityCheck ==
    [][Ran("append") =>
          LET src == call.srcs[1]
              p == buf.buffer
          IN IF src.len > buf.capacity - buf.len
             THEN /\ last_op'.ret = AWS_OP_ERR
                  /\ last_error' = "AWS_ERROR_DEST_COPY_TOO_SMALL"
                  /\ buf' = buf
                  /\ heap' = heap
             ELSE /\ last_op'.ret = AWS_OP_SUCCESS
                  /\ buf' = [buf EXCEPT !.len = buf.len + src.len]
                  /\ Len(heap'[p].bytes) = Len(heap[p].bytes)
                  /\ \A i \in 1..Len(heap[p].bytes) :
                        heap'[p].bytes[i] =
                            IF i > buf.len /\ i <= buf.len + src.len
                            THEN src.bytes[i - buf.len]
                            ELSE heap[p].bytes[i]
                  /\ \A q \in DOMAIN heap \ {p} : heap'[q] = heap[q]]_vars

\* An append was refused on a buffer that had room left, but less than the
\* source needed; the bytes written earlier are still there.
C4_Witness ==
    /\ last_op.op = "append"
    /\ last_op.ret = AWS_OP_ERR
    /\ last_op.grew = 0
    /\ last_error = "AWS_ERROR_DEST_COPY_TOO_SMALL"
    /\ buf.len > 0
    /\ buf.len < buf.capacity
    /\ Used(buf, heap)[1] = 1

\* C5: once an init or init_copy_from_cursor has succeeded, and through the
\* appends, cats, wipes and clean-ups that follow, length <= capacity, the
\* pointer is null exactly when capacity is 0, and the allocator is null
\* exactly when the buffer does not own its pointer.
Owns(b, h) == b.buffer # NULL /\ h[b.buffer].state = "live"

C5_BufferInvariant ==
    init_ok =>
        /\ buf.len <= buf.capacity
        /\ (buf.buffer = NULL) = (buf.capacity = 0)
        /\ (buf.allocator = NULL) = ~Owns(buf, heap)

\* The parts of C5 that hold of every allocator.
C5_LengthAndOwnership ==
    init_ok =>
        /\ buf.len <= buf.capacity
        /\ buf.capacity = 0 \/ buf.buffer # NULL
        /\ (buf.allocator = NULL) = ~Owns(buf, heap)

\* cat's sources: how many bytes the first k hold, and those bytes.
RECURSIVE TotalLen(_, _)
TotalLen(args, k) == IF k = 0 THEN 0 ELSE TotalLen(args, k - 1) + args[k].len
RECURSIVE Concat(_, _)
Concat(args, k) == IF k = 0 THEN <<>> ELSE Concat(args, k - 1) \o args[k].bytes
\* The first source that does not fit in `room` after the ones before it,
\* or 0 when all fit.
FirstFail(args, room) ==
    LET bad == {k \in 1..Len(args) : TotalLen(args, k) > room}
    IN IF bad = {} THEN 0 ELSE CHOOSE k \in bad : \A j \in bad : k <= j

\* C8: cat appends the sources in argument order and stops at the first
\* one that does not fit: on error dest holds its original bytes followed
\* by exactly the sources before that one; on success, by all of them; the
\* length grows by the bytes appended.
C8_CatStopsAtFirstFailure ==
    [][Ran("cat") =>
          LET args == call.srcs
              f == FirstFail(args, buf.capacity - buf.len)
              n == IF f = 0 THEN Len(args) ELSE f - 1
          IN /\ last_op'.ret = IF f = 0 THEN AWS_OP_SUCCESS ELSE AWS_OP_ERR
             /\ f # 0 => last_error' = "AWS_ERROR_DEST_COPY_TOO_SMALL"
             /\ buf' = [buf EXCEPT !.len = buf.len + TotalLen(args, n)]
             /\ Used(buf', heap') = Used(buf, heap) \o Concat(args, n)]_vars

\* A cat failed after it had appended a source to an empty buffer: the
\* buffer holds that source's byte, has room left, and the call returned an
\* error.
C8_Witness ==
    /\ last_op.op = "cat"
    /\ last_op.ret = AWS_OP_ERR
    /\ last_op.grew = 1
    /\ buf.len = 1
    /\ buf.len < buf.capacity
    /\ Used(buf, heap) = <<1>>

\* C9: secure_zero zeroes the whole capacity region, resets length to 0 and
\* leaves capacity, pointer and allocator alone; clean_up_secure releases
\* only storage that holds no non-zero byte.
C9_SecureZeroWholeCapacity ==
    [][/\ RanDirect("secure_zero") =>
            /\ buf' = [buf EXCEPT !.len = 0]
            /\ ReleasedNow = {}
            /\ buf.buffer # NULL =>
                  /\ Len(heap'[buf.buffer].bytes) = buf.capacity
                  /\ \A i \in 1..buf.capacity : heap'[buf.buffer].bytes[i] = 0
       /\ RanDirect("clean_up_secure") =>
            \A p \in ReleasedNow : heap'[p].zeroed]_vars

\* clean_up_secure released, wiped, the block of a buffer that was full to
\* the largest capacity.
C9_Witness ==
    /\ last_op.op = "clean_up_secure"
    /\ last_op.grew = 0 - MaxCap
    /\ \E p \in last_op.released :
          /\ heap[p].state = "released"
          /\ heap[p].zeroed

\* C10: clean_up and clean_up_secure never fail; they release the storage
\* only when allocator and pointer are both present, then zero every
\* field; no block is released twice, and a clean-up of a cleaned-up buffer
\* changes nothing and releases nothing.
C10_CleanUpRepeatable ==
    [][(RanDirect("clean_up") \/ RanDirect("clean_up_secure")) =>
          /\ last_op'.ret = "void"
          /\ last_error' = last_error
          /\ buf' = ZeroBuf
          /\ ReleasedNow = IF buf.allocator # NULL /\ buf.buffer # NULL
                           THEN {buf.buffer} ELSE {}
          /\ \A p \in DOMAIN heap : heap'[p].releases <= 1
          /\ buf = ZeroBuf => heap' = heap]_vars

\* A clean-up ran on a buffer whose storage an earlier clean-up had released.
C10_Witness ==
    /\ last_op.op \in {"clean_up", "clean_up_secure"}
    /\ last_op.released = {}
    /\ buf = ZeroBuf
    /\ \E p \in DOMAIN heap : heap[p].state = "released"

(***************************************************************************)
(* Claims about equality (EqSpec).                                         *)
(***************************************************************************)
\* The bytes an operand holds.
EqBytes(x) == AsCursor(eq_mem, x).bytes
EqCompared == eq_res.op # "none"
EqBothHandles == eq_a.addr # NULL /\ eq_b.addr # NULL

\* Reflexivity, symmetry and the rules for null handles and for lengths.
EqHandleAndLengthLaws ==
    /\ eq_res.aa /\ eq_res.bb
    /\ eq_res.ab = eq_res.ba
    /\ (eq_a.addr = NULL /\ eq_b.addr = NULL) => eq_res.ab
    /\ ((eq_a.addr = NULL) # (eq_b.addr = NULL)) => ~eq_res.ab
    /\ (EqBothHandles /\ eq_a.len # eq_b.len) => ~eq_res.ab

\* C11: each of buf_eq, cursor_eq and cursor_eq_byte_buf is reflexive and
\* symmetric; two null handles are equal and a null handle differs from a
\* non-null one; operands of different lengths are unequal; operands of
\* equal length whose bytes are identical are equal, two zero-length
\* operands included.
C11_EqualityLaws ==
    EqCompared =>
        /\ EqHandleAndLengthLaws
        /\ (EqBothHandles /\ eq_a.len = eq_b.len /\ EqBytes(eq_a) = EqBytes(eq_b))
               => eq_res.ab

\* The same with the last rule kept to operands whose pointers are both
\* null or both non-null; and operands found equal have the same bytes.
C11_EqualityLaws_SameNullness ==
    EqCompared =>
        /\ EqHandleAndLengthLaws
        /\ (EqBothHandles /\ eq_a.len = eq_b.len /\ EqBytes(eq_a) = EqBytes(eq_b)
               /\ (eq_a.ptr = NULL) = (eq_b.ptr = NULL))
               => eq_res.ab
        /\ (EqBothHandles /\ eq_res.ab) => EqBytes(eq_a) = EqBytes(eq_b)

(***************************************************************************)
(* init_copy_from_cursor and equality (Spec).                              *)
(***************************************************************************)
\* The blocks the step acquired.
AcquiredNow == {p \in DOMAIN heap : heap[p].state = "unused" /\ heap'[p].state = "live"}

\* The struct at a non-null address ad holding the fields of x.
At(ad, x) == [addr |-> ad] @@ x

\* The cursor aws_byte_cursor_from_buf gives for buffer b over heap h.
CursorOfBuf(b, h) ==
    aws_byte_cursor_from_buf([buffer |-> b.buffer, len |-> b.len, bytes |-> Used(b, h)])

\* C12: init_copy_from_cursor of a null source succeeds without acquiring
\* anything and leaves len 0, capacity 0, pointer null, allocator null; of a
\* non-null source, when the allocator grants the block, it leaves len =
\* capacity = src.len, the buffer owning the new block through the
\* allocator, and the cursor of the buffer equal (aws_byte_cursor_eq) to
\* the source; when the allocator refuses it returns an error and the
\* buffer owns nothing (len 0, capacity 0, allocator null).
C12_InitCopyRoundTrip ==
    [][Ran("init_copy_from_cursor") =>
          LET src == call.srcs[1]
          IN IF src.ptr = NULL
             THEN /\ last_op'.ret = AWS_OP_SUCCESS
                  /\ AcquiredNow = {}
                  /\ buf' = ZeroBuf
             ELSE IF AcquiredNow # {}
             THEN /\ last_op'.ret = AWS_OP_SUCCESS
                  /\ buf'.len = src.len
                  /\ buf'.capacity = src.len
                  /\ buf'.allocator = ALLOCATOR
                  /\ AcquiredNow = {buf'.buffer}
                  /\ Owns(buf', heap')
                  /\ aws_byte_cursor_eq(At(NULL + 1, CursorOfBuf(buf', heap')),
                                        At(NULL + 2, src))
                  /\ aws_byte_cursor_eq(At(NULL + 2, src),
                                        At(NULL + 1, CursorOfBuf(buf', heap')))
             ELSE /\ last_op'.ret = AWS_OP_ERR
                  /\ buf'.len = 0
                  /\ buf'.capacity = 0
                  /\ buf'.allocator = NULL
                  /\ ~Owns(buf', heap')]_vars

\* A source of the greatest length, its first byte non-zero and its last
\* byte zero, was copied into a buffer that owns the copy.
C12_Witness ==
    /\ last_op.op = "init_copy_from_cursor"
    /\ last_op.ret = AWS_OP_SUCCESS
    /\ buf.len = MaxSrcLen
    /\ buf.capacity = MaxSrcLen
    /\ buf.allocator = ALLOCATOR
    /\ Used(buf, heap)[1] = 1
    /\ Used(buf, heap)[MaxSrcLen] = 0

====
